---- MODULE Spec2Model ----
(***************************************************************************)
(* Weather station (ESP32): the DHT11 single-wire reader of DHT11.c, the   *)
(* retry wrapper dht11_read, the LED signalling it calls (rgb_led.c) and   *)
(* the read loop of app_main (main.c).                                     *)
(*                                                                         *)
(* Time is the value of esp_timer_get_time() relative to the last          *)
(* `timeout = esp_timer_get_time()` / `start = esp_timer_get_time()`       *)
(* assignment (variable elapsed).  Every iteration of a polling loop is    *)
(* one step: the clock advances by a value of ClockSteps, the line is      *)
(* read, and, when the loop condition still holds, the clock is compared   *)
(* with the 100 us budget.                                                 *)
(*                                                                         *)
(* The line may show any level at any poll of a handshake or inter-bit     *)
(* wait.  During the 40 high-pulse measurements it shows pulses whose      *)
(* decoded bits form one of the frames of Frames (AllowedBits), which      *)
(* keeps the frame buffer finite; a line stuck high is the all-ones frame. *)
(* The locals of dht11_read_once are reset when it has returned.           *)
(***************************************************************************)
EXTENDS Integers, Sequences, FiniteSets, TLC

VARIABLES
    pc,             \* position of app_main / dht11_read / dht11_read_once
    sensor,         \* dht11_t: temperature, humidity
    gpio_dir,       \* direction of the data line GPIO
    gpio_out,       \* level the controller drives on the line
    retry_i,        \* dht11_read: loop variable i
    result,         \* dht11_read: esp_err_t result
    data,           \* dht11_read_once: int data[5]
    bits,           \* history: the bit values decoded so far in the current attempt
    bit_idx,        \* dht11_read_once: bit_idx
    byte_idx,       \* dht11_read_once: byte_idx
    bit_i,          \* dht11_read_once: loop variable i of the 40-bit loop
    elapsed,        \* esp_timer_get_time() - timeout (or - start) at the last clock read
    log,            \* message logged under TAG "DHT11" by the function now running
    g_pmw_init_handle, \* rgb_led.c: PWM initialised flag
    led,            \* duties of the three LEDC channels
    red_tasks,      \* number of red_led_task instances created
    red_off,        \* number of them that will turn the red LED off at their next run
    starts,         \* history: start pulses sent in the current dht11_read call
    fails,          \* history: causes of the failed attempts of the current call
    to_phase,       \* history: phase in which the current attempt timed out
    lcd_text,       \* what app_main last printed on the LCD
    last_good,      \* history: the frame of the most recent successful attempt
    delay_ms,       \* milliseconds of the vTaskDelay app_main's task is blocked in, 0 when it runs
    idle_ms,        \* history: milliseconds app_main has slept since it last called dht11_read
    start_seq,      \* history: what the current attempt has done to the line, in order
    seen_at,        \* history: microseconds into the wait just completed at which its level was read
    signals,        \* history: the LED functions called by the current dht11_read call
    led_call,       \* per task: the LED function it is in and its position there
    pmw_inits,      \* history: number of times rgb_led_pmw_init has configured the channels
    i2c_bus,        \* the bytes the last lcd_send_command / lcd_send_data / backlight call wrote to the PCF8574
    lcd_backlight,  \* static uint8_t lcd_backlight
    lcd_op,         \* history: register select and byte of the last lcd_send_command / lcd_send_data
    lcd_cols,       \* static uint8_t lcd_cols
    lcd_rows,       \* static uint8_t lcd_rows
    i2c_initialized, \* static bool i2c_initialized
    lcd_fn,         \* history: the LCD function called last
    lcd_ret,        \* the result of the last liquid_crystal_i2c_init call
    cursor_at,      \* history: column and row_offsets index used by the last lcd_set_cursor
    i2c_installs    \* history: number of successful i2c_driver_install calls

vars == <<pc, sensor, gpio_dir, gpio_out, retry_i, result, data, bits, bit_idx, byte_idx,
          bit_i, elapsed, log, g_pmw_init_handle, led, red_tasks, starts, fails,
          to_phase, lcd_text, last_good, red_off, delay_ms, idle_ms, start_seq,
          seen_at, signals, led_call, pmw_inits, i2c_bus, lcd_backlight, lcd_op,
          lcd_cols, lcd_rows, i2c_initialized, lcd_fn, lcd_ret, cursor_at, i2c_installs>>

\* the display size, the driver flag and the records of the LCD calls
lcdGeom == <<lcd_cols, lcd_rows, i2c_initialized, lcd_fn, lcd_ret, cursor_at, i2c_installs>>

(***************************************************************************)
(* Program constants                                                       *)
(***************************************************************************)
DHT_READ_RETRIES == 3

\* as MaxAttempts, with the loop bound off by one
RetriesOneLess == DHT_READ_RETRIES - 1

\* the bound of the retry loop of dht11_read
MaxAttempts == DHT_READ_RETRIES

FRAME_BITS == 40

BYTE_BITS == 8

WAIT_TIMEOUT_US == 100

\* vTaskDelay(pdMS_TO_TICKS(20)) with the line driven low
START_LOW_MS == 20

\* vTaskDelay(pdMS_TO_TICKS(100)) after a failed attempt
RETRY_DELAY_MS == 100

\* app_main: vTaskDelay(pdMS_TO_TICKS(2000)), twice before the loop
STABILIZE_MS == 2000

\* as xDelay, a sixtieth of it
xDelay_Sixtieth == 60000 \div 60

\* app_main: xDelay = 60000 / portTICK_PERIOD_MS ticks, in milliseconds
xDelay == 60000

\* the line operations of the start pulse up to the sleep, and after it
StartOps == <<"set_output", "level_0", "vTaskDelay_20ms">>

\* as ReleaseOps, with the line switched to input before it is driven high
ReleaseOps_InputFirst == <<"set_input", "level_1", "delay_us_30">>

ReleaseOps == <<"level_1", "delay_us_30", "set_input">>

BIT_THRESHOLD_US == 40

(***************************************************************************)
(* Bounds of the model                                                     *)
(***************************************************************************)
\* largest advance of the microsecond clock between two polls of the line
MaxTick == 21

\* number of frames the sensor may send (FrameOf(1) .. FrameOf(NumFrames))
NumFrames == 4

\* red_led_task instances that may be created before app_main stops reading
MaxRedTasks == 4

\* values an uninitialised int of the handle may hold before dht11_init
Garbage == 7

\* largest pulse width (us) that the first measurement of SpecPulse may return
MaxPulse == 130

ClockSteps == (MaxTick - 1)..MaxTick

\* extra microseconds between the last poll and the clock read that follows it
ClockLag == {0, 1}

\* frames the sensor may send: scenario A, scenario B (bad checksum),
\* line stuck high, fractions non-zero and sum above 255, all zero
FrameOf(n) ==
    CASE n = 1 -> <<45, 0, 23, 0, 68>>
      [] n = 2 -> <<45, 0, 23, 0, 69>>
      [] n = 3 -> <<255, 255, 255, 255, 255>>
      [] n = 4 -> <<90, 200, 50, 7, 91>>
      [] OTHER -> <<0, 0, 0, 0, 0>>

Frames == {FrameOf(n) : n \in 1..NumFrames}

Pow2(n) == IF n = 0 THEN 1 ELSE IF n = 1 THEN 2 ELSE IF n = 2 THEN 4
           ELSE IF n = 3 THEN 8 ELSE IF n = 4 THEN 16 ELSE IF n = 5 THEN 32
           ELSE IF n = 6 THEN 64 ELSE IF n = 7 THEN 128 ELSE 256

\* bit k (0..39) of a frame, most significant bit of byte 0 first
FrameBit(f, k) == (f[(k \div BYTE_BITS) + 1] \div Pow2(7 - (k % BYTE_BITS))) % 2

\* the bits decoded so far are the first bit_i bits of frame f
IsPrefixOf(f) ==
    /\ \A k \in 1..byte_idx : data[k] = f[k]
    /\ byte_idx < 5 => data[byte_idx + 1] = f[byte_idx + 1] \div Pow2(BYTE_BITS - bit_idx)

\* the values the sensor may send as the next bit
AllowedBits == {FrameBit(f, bit_i) : f \in {g \in Frames : IsPrefixOf(g)}}

(***************************************************************************)
(* Return codes and log messages                                           *)
(***************************************************************************)
ESP_OK == "ESP_OK"

ESP_FAIL == "ESP_FAIL"

ESP_ERR_TIMEOUT == "ESP_ERR_TIMEOUT"

ESP_ERR_INVALID_CRC == "ESP_ERR_INVALID_CRC"

HandshakePhases == {"ack_low", "ack_high", "ack_low2"}

TimeoutPhases == HandshakePhases \cup {"bit"}

\* a timeout phase with its bit index (0 for the handshake stages)
PhaseIds == (HandshakePhases \X {0}) \cup ({"bit"} \X (0..(FRAME_BITS - 1)))

\* as TimeoutReturn, with the generic failure code after the first handshake stage
TimeoutReturn_Generic(p, k) == IF p = "ack_low" THEN ESP_ERR_TIMEOUT ELSE ESP_FAIL

\* the value dht11_read_once returns when the wait of phase p (bit index k) times out
TimeoutReturn(p, k) == ESP_ERR_TIMEOUT

\* as ChecksumReturn, with the timeout code for a mismatch
ChecksumReturn_AsTimeout(ok) == IF ok THEN ESP_OK ELSE ESP_ERR_TIMEOUT

\* the value dht11_read_once returns after the checksum test
ChecksumReturn(ok) == IF ok THEN ESP_OK ELSE ESP_ERR_INVALID_CRC

\* the message logged when the wait of phase p times out
TimeoutLog(p) ==
    CASE p = "ack_low" -> "dht11_read: TIMEOUT waiting for LOW"
      [] p = "ack_high" -> "dht11_read: TIMEOUT waiting for HIGH"
      [] p = "ack_low2" -> "dht11_read: TIMEOUT second LOW"
      [] OTHER -> "dht11_read: TIMEOUT waiting for bit HIGH"

(***************************************************************************)
(* Pure parts of dht11_read_once                                           *)
(***************************************************************************)
\* as BitValue, with a pulse of exactly the threshold read as 1
BitValue_AtLeast(pulse_width) == IF pulse_width >= BIT_THRESHOLD_US THEN 1 ELSE 0

\* bit value of a measured high pulse
BitValue(pulse_width) == IF pulse_width > BIT_THRESHOLD_US THEN 1 ELSE 0

\* as Checksum, over the two integral bytes only
Checksum_IntegralOnly(d) == (d[1] + d[3]) % 256

\* uint8_t checksum = data[0] + data[1] + data[2] + data[3]
Checksum(d) == (d[1] + d[2] + d[3] + d[4]) % 256

\* as ChecksumOk, with the sum kept in an int instead of a uint8_t
ChecksumOk_NoWrap(d) == d[5] = d[1] + d[2] + d[3] + d[4]

\* as ChecksumOk, with the mask 0x7F in place of 0xFF on both sides
ChecksumOk_LowBits(d) == d[5] % 128 = Checksum(d) % 128

\* the negation of  data[4] != (checksum & 0xFF)
ChecksumOk(d) == d[5] = Checksum(d) % 256

\* as StoreReadings, with the store placed before the checksum test
StoreReadings_Always(s, d, ok) == [s EXCEPT !.humidity = d[1], !.temperature = d[3]]

\* as StoreReadings, with the humidity stored before the checksum test
StoreReadings_HumidityFirst(s, d, ok) ==
    IF ok THEN [s EXCEPT !.humidity = d[1], !.temperature = d[3]]
    ELSE [s EXCEPT !.humidity = d[1]]

\* as StoreReadings, with the two bytes exchanged
StoreReadings_Swapped(s, d, ok) ==
    IF ok THEN [s EXCEPT !.humidity = d[3], !.temperature = d[1]] ELSE s

\* the handle after the checksum test of a frame
StoreReadings(s, d, ok) ==
    IF ok THEN [s EXCEPT !.humidity = d[1], !.temperature = d[3]] ELSE s

\* as ShiftIn, with the bit set before the shift
ShiftIn_SetThenShift(d, idx, b) == [d EXCEPT ![idx + 1] = (@ + b) * 2]

\* data[byte_idx] <<= 1; if (pulse_width > 40) data[byte_idx] |= 1
ShiftIn(d, idx, b) == [d EXCEPT ![idx + 1] = @ * 2 + b]

(***************************************************************************)
(* The getters and the Fahrenheit conversion.  A float is the pair         *)
(* [m, e] with value m * 2^e: m = 0, or 2^23 <= m < 2^24 (24-bit           *)
(* significand of IEEE binary32); every operation rounds to nearest, ties  *)
(* to even.                                                                *)
(***************************************************************************)
RECURSIVE TwoTo(_)
TwoTo(n) == IF n = 0 THEN 1 ELSE 2 * TwoTo(n - 1)

RECURSIVE Log2Floor(_)
Log2Floor(q) == IF q < 2 THEN 0 ELSE 1 + Log2Floor(q \div 2)

\* a / b rounded to the nearest integer, ties to the even one
RoundDivEven(a, b) ==
    LET q == a \div b
        r == a % b
    IN  IF 2 * r < b THEN q
        ELSE IF 2 * r > b THEN q + 1
        ELSE IF q % 2 = 0 THEN q ELSE q + 1

\* significand overflow after rounding: 2^24 becomes 2^23 with the next exponent
F32Norm(m, e) == IF m = TwoTo(24) THEN [m |-> TwoTo(23), e |-> e + 1] ELSE [m |-> m, e |-> e]

\* (float)a / (float)b for integers 0 <= a < 2^24, 0 < b <= a or a = 0
F32Div(a, b) ==
    IF a = 0 THEN [m |-> 0, e |-> 0]
    ELSE LET s == 23 - Log2Floor(a \div b)
         IN  F32Norm(RoundDivEven(a * TwoTo(s), b), -s)

\* x + (float)n for a float x >= 0 with exponent <= 0 and an integer 0 < n < 2^24
F32AddInt(x, n) ==
    IF x.m = 0 THEN [m |-> n * TwoTo(23 - Log2Floor(n)), e |-> Log2Floor(n) - 23]
    ELSE LET sum == x.m + n * TwoTo(-x.e)
             e2 == Log2Floor(sum \div TwoTo(-x.e)) - 23
         IN  F32Norm(RoundDivEven(sum, TwoTo(e2 - x.e)), e2)

\* as F32ToInt, rounding to the nearest integer
F32ToInt_Nearest(x) == RoundDivEven(x.m, TwoTo(-x.e))

\* (int)x for a float x >= 0 with exponent <= 0: the fraction is cut off
F32ToInt(x) == x.m \div TwoTo(-x.e)

\* the float x has exactly the value of the integer n
F32IsInt(x, n) == x.m = n * TwoTo(-x.e)

\* as dht11_celsius_to_fahrenheit, with the quotient 9 / 5 taken in integers
dht11_celsius_to_fahrenheit_IntDiv(celsius) == F32AddInt(F32Div(celsius, 1), 32)

\* return (celsius * 9.0f / 5.0f) + 32.0f
dht11_celsius_to_fahrenheit(celsius) == F32AddInt(F32Div(celsius * 9, 5), 32)

\* (int)dht11_celsius_to_fahrenheit(c) for every temperature byte c, computed once
FahrenheitAsInt ==
    [c \in 0..(TwoTo(BYTE_BITS) - 1) |-> F32ToInt(dht11_celsius_to_fahrenheit(c))]

\* the float returned by the conversion becomes the int result
dht11_get_temperature(s, fahrenheit) ==
    IF fahrenheit THEN FahrenheitAsInt[s.temperature] ELSE s.temperature

dht11_get_humidity(s) == s.humidity

\* app_main: bool temp_fahrenheit = true
temp_fahrenheit == TRUE

\* the text app_main puts on the LCD, with the two numbers it prints (0 when
\* the text has none)
LcdText(msg, t, h) == [msg |-> msg, temperature |-> t, humidity |-> h]

(***************************************************************************)
(* rgb_led.c                                                               *)
(***************************************************************************)
\* rgb_led_pmw_init followed by rgb_led_set_color(r, g, b)
\* LiquidCrystal_I2C.h: bits of the PCF8574 byte
LCD_RS_PIN == 1
LCD_ENABLE_PIN == 4
LCD_BACKLIGHT_ON == 8
LCD_BACKLIGHT_OFF == 0

\* no byte sent yet
NoLcdOp == [rs |-> 0, v |-> -1]

\* lcd_set_cursor not called yet
NoCursor == [col |-> -1, row |-> -1]

\* LiquidCrystal_I2C.c at program start: the initial values of its statics
LcdAtReset ==
    /\ lcd_cols = 16
    /\ lcd_rows = 2
    /\ i2c_initialized = FALSE
    /\ lcd_fn = "none"
    /\ lcd_ret = "none"
    /\ cursor_at = NoCursor
    /\ i2c_installs = 0

\* after liquid_crystal_i2c_init(0x27, 16, 2) has returned ESP_OK in app_main
LcdReady ==
    /\ lcd_cols = 16
    /\ lcd_rows = 2
    /\ i2c_initialized = TRUE
    /\ lcd_fn = "liquid_crystal_i2c_init"
    /\ lcd_ret = "ESP_OK"
    /\ cursor_at = NoCursor
    /\ i2c_installs = 1

LedTasks == {"app_main", "wifi_app"}

\* no task is inside an LED function
NoLedCall == [t \in LedTasks |-> [fn |-> "none", at |-> "idle"]]

rgb_led_set(r, g, b) ==
    /\ g_pmw_init_handle' = TRUE
    /\ pmw_inits' = IF g_pmw_init_handle THEN pmw_inits ELSE pmw_inits + 1
    /\ led' = <<r, g, b>>

\* rgb_led_error: PWM initialised when needed, one more red_led_task created
rgb_led_error ==
    /\ g_pmw_init_handle' = TRUE
    /\ pmw_inits' = IF g_pmw_init_handle THEN pmw_inits ELSE pmw_inits + 1
    /\ led' = IF g_pmw_init_handle THEN led ELSE <<0, 0, 0>>
    /\ red_tasks' = red_tasks + 1

(***************************************************************************)
(* Initial state: app_main before dht11_init, after an LCD initialisation  *)
(* that succeeded; the handle is an uninitialised local.                   *)
(***************************************************************************)
\* app_main's locals and the sensor and LED drivers at program start
InitApp ==
    /\ sensor \in [gpio_num : {0, Garbage}, temperature : {0, Garbage}, humidity : {0, Garbage}]
    /\ gpio_dir = "DISABLE"
    /\ gpio_out = 1
    /\ retry_i = 0
    /\ result = ESP_FAIL
    /\ data = <<0, 0, 0, 0, 0>>
    /\ bits = <<>>
    /\ bit_idx = 0
    /\ byte_idx = 0
    /\ bit_i = 0
    /\ elapsed = 0
    /\ log = ""
    /\ g_pmw_init_handle = FALSE
    /\ led = <<0, 0, 0>>
    /\ red_tasks = 0
    /\ starts = 0
    /\ fails = <<>>
    /\ to_phase = "none"
    /\ last_good = <<>>
    /\ red_off = 0
    /\ delay_ms = 0
    /\ idle_ms = 0
    /\ seen_at = 0
    /\ signals = <<>>
    /\ led_call = NoLedCall
    /\ i2c_bus = <<>>
    /\ lcd_backlight = LCD_BACKLIGHT_ON
    /\ lcd_op = NoLcdOp
    /\ pmw_inits = 0
    /\ start_seq = <<>>

Init ==
    /\ pc = "app_init"
    /\ lcd_text = LcdText("Initializing...", 0, 0)
    /\ InitApp
    /\ LcdReady

onceVars == <<data, bits, bit_idx, byte_idx, bit_i, elapsed, to_phase>>

ledVars == <<g_pmw_init_handle, led, red_tasks>>

(***************************************************************************)
(* dht11_init                                                              *)
(***************************************************************************)
dht11_init ==
    /\ pc = "app_init"
    /\ sensor' = [gpio_num |-> 4, temperature |-> 0, humidity |-> 0]
    /\ gpio_dir' = "INPUT_OUTPUT_OD"
    /\ gpio_out' = 1
    /\ log' = "dht11_init: init complete"
    /\ rgb_led_set(32, 66, 63)
    /\ pc' = "main_loop"
    /\ lcd_text' = LcdText("Ready!", 0, 0)
    /\ idle_ms' = STABILIZE_MS + STABILIZE_MS
    /\ UNCHANGED <<retry_i, result, onceVars, red_tasks, starts, fails, last_good, red_off,
                   delay_ms, start_seq, seen_at, signals, led_call,
                   i2c_bus, lcd_backlight, lcd_op, lcdGeom>>

(***************************************************************************)
(* dht11_read: entry and loop head                                         *)
(***************************************************************************)
\* app_main calls dht11_read(&sensor)
ReadCall ==
    /\ pc = "main_loop"
    /\ red_tasks + 2 <= MaxRedTasks
    /\ result' = ESP_FAIL
    /\ retry_i' = 0
    /\ starts' = 0
    /\ fails' = <<>>
    /\ log' = ""
    /\ idle_ms' = 0
    /\ signals' = <<>>
    /\ pc' = "read_loop"
    /\ UNCHANGED <<sensor, gpio_dir, gpio_out, onceVars, ledVars, lcd_text, last_good,
                   red_off, delay_ms, start_seq, seen_at, led_call, pmw_inits,
                   i2c_bus, lcd_backlight, lcd_op, lcdGeom>>

\* for (i < DHT_READ_RETRIES): dht11_read_once starts, line driven low, vTaskDelay(20)
SendStart ==
    /\ pc = "read_loop"
    /\ retry_i < MaxAttempts
    /\ data' = <<0, 0, 0, 0, 0>>
    /\ bits' = <<>>
    /\ bit_idx' = 0
    /\ byte_idx' = 0
    /\ bit_i' = 0
    /\ to_phase' = "none"
    /\ gpio_dir' = "OUTPUT_OD"
    /\ gpio_out' = 0
    /\ starts' = starts + 1
    /\ start_seq' = StartOps
    /\ delay_ms' = START_LOW_MS
    /\ pc' = "start_sleep"
    /\ UNCHANGED <<sensor, retry_i, result, elapsed, log, ledVars, fails,
                   lcd_text, last_good, red_off, idle_ms, seen_at, signals, led_call,
                   pmw_inits, i2c_bus, lcd_backlight, lcd_op, lcdGeom>>

\* after the 20 ms: line released, 30 us delay, input mode, timeout = now
StartRelease ==
    /\ pc = "start_sleep"
    /\ gpio_out' = 1
    /\ gpio_dir' = "INPUT"
    /\ start_seq' = start_seq \o ReleaseOps
    /\ delay_ms' = 0
    /\ elapsed' = 0
    /\ pc' = "ack_low"
    /\ UNCHANGED <<sensor, retry_i, result, data, bits, bit_idx, byte_idx, bit_i, log,
                   ledVars, starts, fails, to_phase, lcd_text, last_good, red_off, idle_ms,
                   seen_at, signals, led_call, pmw_inits, i2c_bus, lcd_backlight, lcd_op,
                   lcdGeom>>

(***************************************************************************)
(* The polling loops of dht11_read_once                                    *)
(***************************************************************************)
\* as WaitLevel, with `timeout` read again when the budget is exceeded instead of
\* returning
WaitLevel_RestartsClock(here, target, next, phase) ==
    /\ pc = here
    /\ \E d \in ClockSteps, level \in {0, 1} :
          /\ seen_at' = IF level = target THEN elapsed + d ELSE 0
          /\ IF level = target
             THEN /\ pc' = next
                  /\ elapsed' = 0
             ELSE /\ pc' = here
                  /\ elapsed' = IF elapsed + d > WAIT_TIMEOUT_US THEN 0 ELSE elapsed + d
    /\ UNCHANGED <<sensor, gpio_dir, gpio_out, retry_i, result, data, bits, bit_idx, byte_idx,
                   bit_i, log, ledVars, starts, fails, to_phase, lcd_text, last_good,
                   red_off, delay_ms, idle_ms, start_seq, signals, led_call, pmw_inits,
                   i2c_bus, lcd_backlight, lcd_op, lcdGeom>>

\* as WaitLevel, with `break` in place of `return ESP_ERR_TIMEOUT`
WaitLevel_BreakOnTimeout(here, target, next, phase) ==
    /\ pc = here
    /\ \E d \in ClockSteps, level \in {0, 1} :
          /\ seen_at' = IF level = target THEN elapsed + d ELSE 0
          /\ IF level = target \/ elapsed + d > WAIT_TIMEOUT_US
             THEN /\ pc' = next
                  /\ elapsed' = IF level = target THEN 0 ELSE elapsed + d
             ELSE /\ pc' = here
                  /\ elapsed' = elapsed + d
    /\ UNCHANGED <<sensor, gpio_dir, gpio_out, retry_i, result, data, bits, bit_idx, byte_idx,
                   bit_i, log, ledVars, starts, fails, to_phase, lcd_text, last_good,
                   red_off, delay_ms, idle_ms, start_seq, signals, led_call, pmw_inits,
                   i2c_bus, lcd_backlight, lcd_op, lcdGeom>>

\* as WaitLevel, with vTaskDelay(1) in every iteration that stays in the loop
WaitLevel_Yields(here, target, next, phase) ==
    /\ pc = here
    /\ \E d \in ClockSteps, level \in {0, 1} :
          /\ seen_at' = IF level = target THEN elapsed + d ELSE 0
          /\ IF level = target
             THEN /\ pc' = next
                  /\ elapsed' = 0
                  /\ delay_ms' = 0
                  /\ UNCHANGED <<result, log, to_phase, fails>>
             ELSE IF elapsed + d > WAIT_TIMEOUT_US
             THEN /\ pc' = "once_ret"
                  /\ elapsed' = elapsed + d
                  /\ delay_ms' = 0
                  /\ result' = TimeoutReturn(phase, bit_i)
                  /\ log' = TimeoutLog(phase)
                  /\ to_phase' = phase
                  /\ fails' = Append(fails, "timeout")
             ELSE /\ pc' = here
                  /\ elapsed' = elapsed + d
                  /\ delay_ms' = 1
                  /\ UNCHANGED <<result, log, to_phase, fails>>
    /\ UNCHANGED <<sensor, gpio_dir, gpio_out, retry_i, data, bits, bit_idx, byte_idx, bit_i,
                   ledVars, starts, lcd_text, last_good, red_off, idle_ms, start_seq,
                   signals, led_call, pmw_inits, i2c_bus, lcd_backlight, lcd_op, lcdGeom>>

\* as WaitLevel, with twice the budget
WaitLevel_DoubleBudget(here, target, next, phase) ==
    /\ pc = here
    /\ \E d \in ClockSteps, level \in {0, 1} :
          /\ seen_at' = IF level = target THEN elapsed + d ELSE 0
          /\ IF level = target
             THEN /\ pc' = next
                  /\ elapsed' = 0
                  /\ UNCHANGED <<result, log, to_phase, fails>>
             ELSE IF elapsed + d > 2 * WAIT_TIMEOUT_US
             THEN /\ pc' = "once_ret"
                  /\ elapsed' = elapsed + d
                  /\ result' = TimeoutReturn(phase, bit_i)
                  /\ log' = TimeoutLog(phase)
                  /\ to_phase' = phase
                  /\ fails' = Append(fails, "timeout")
             ELSE /\ pc' = here
                  /\ elapsed' = elapsed + d
                  /\ UNCHANGED <<result, log, to_phase, fails>>
    /\ UNCHANGED <<sensor, gpio_dir, gpio_out, retry_i, data, bits, bit_idx, byte_idx, bit_i,
                   ledVars, starts, lcd_text, last_good, red_off, delay_ms, idle_ms,
                   start_seq, signals, led_call, pmw_inits, i2c_bus, lcd_backlight, lcd_op,
                   lcdGeom>>

\* one iteration of  while (gpio_get_level() != target) { if (now - timeout > 100) return }
WaitLevel(here, target, next, phase) ==
    /\ pc = here
    /\ \E d \in ClockSteps, level \in {0, 1} :
          /\ seen_at' = IF level = target THEN elapsed + d ELSE 0
          /\ IF level = target
             THEN /\ pc' = next
                  /\ elapsed' = 0
                  /\ UNCHANGED <<result, log, to_phase, fails>>
             ELSE IF elapsed + d > WAIT_TIMEOUT_US
             THEN /\ pc' = "once_ret"
                  /\ elapsed' = elapsed + d
                  /\ result' = TimeoutReturn(phase, bit_i)
                  /\ log' = TimeoutLog(phase)
                  /\ to_phase' = phase
                  /\ fails' = Append(fails, "timeout")
             ELSE /\ pc' = here
                  /\ elapsed' = elapsed + d
                  /\ UNCHANGED <<result, log, to_phase, fails>>
    /\ UNCHANGED <<sensor, gpio_dir, gpio_out, retry_i, data, bits, bit_idx, byte_idx, bit_i,
                   ledVars, starts, lcd_text, last_good, red_off, delay_ms, idle_ms,
                   start_seq, signals, led_call, pmw_inits, i2c_bus, lcd_backlight, lcd_op,
                   lcdGeom>>

\* as AwaitAck1, with the wait for the high level left out after it
AwaitAck1_SkipsAck2 == WaitLevel("ack_low", 0, "ack_low2", "ack_low")

AwaitAck1 == WaitLevel("ack_low", 0, "ack_high", "ack_low")

AwaitAck2 == WaitLevel("ack_high", 1, "ack_low2", "ack_high")

AwaitAck3 == WaitLevel("ack_low2", 0, "bit_wait", "ack_low2")

WaitBitHigh == WaitLevel("bit_wait", 1, "bit_measure", "bit")

\* the bit of a measured pulse is shifted into data[byte_idx]; bit_idx and
\* byte_idx advance
DecodeBody(pulse_width) ==
    /\ data' = ShiftIn(data, byte_idx, BitValue(pulse_width))
    /\ bits' = Append(bits, BitValue(pulse_width))
    /\ bit_idx' = IF bit_idx + 1 = BYTE_BITS THEN 0 ELSE bit_idx + 1
    /\ byte_idx' = IF bit_idx + 1 = BYTE_BITS THEN byte_idx + 1 ELSE byte_idx

\* the bit just measured is decoded, i advances, the next wait starts its clock
DecodeBit(pulse_width) ==
    /\ DecodeBody(pulse_width)
    /\ bit_i' = bit_i + 1
    /\ pc' = IF bit_i + 1 < FRAME_BITS THEN "bit_wait" ELSE "checksum"
    /\ elapsed' = 0

\* as MeasureHigh, but a pulse longer than the budget ends the attempt
MeasureHigh_TimesOut ==
    /\ pc = "bit_measure"
    /\ seen_at' = 0
    /\ \E d \in ClockSteps, level \in {0, 1}, lag \in ClockLag :
          IF elapsed + d > WAIT_TIMEOUT_US
          THEN /\ lag = 0
               /\ pc' = "once_ret"
               /\ elapsed' = elapsed + d
               /\ result' = TimeoutReturn("bit", bit_i)
               /\ log' = TimeoutLog("bit")
               /\ to_phase' = "bit"
               /\ fails' = Append(fails, "timeout")
               /\ UNCHANGED <<data, bits, bit_idx, byte_idx, bit_i>>
          ELSE IF level = 0
          THEN /\ BitValue(elapsed + d + lag) \in AllowedBits
               /\ DecodeBit(elapsed + d + lag)
               /\ UNCHANGED <<result, log, to_phase, fails>>
          ELSE /\ lag = 0
               /\ elapsed' = elapsed + d
               /\ UNCHANGED <<pc, data, bits, bit_idx, byte_idx, bit_i, result, log,
                              to_phase, fails>>
    /\ UNCHANGED <<sensor, gpio_dir, gpio_out, retry_i, ledVars, starts,
                   lcd_text, last_good, red_off, delay_ms, idle_ms, start_seq, signals,
                   led_call, pmw_inits, i2c_bus, lcd_backlight, lcd_op, lcdGeom>>

\* one iteration of the high-pulse measurement; when the loop ends (line low,
\* or more than 100 us high) the pulse width is read and the bit decoded
MeasureHigh ==
    /\ pc = "bit_measure"
    /\ seen_at' = 0
    /\ \E d \in ClockSteps, level \in {0, 1}, lag \in ClockLag :
          IF level = 0 \/ elapsed + d > WAIT_TIMEOUT_US
          THEN /\ BitValue(elapsed + d + lag) \in AllowedBits
               /\ DecodeBit(elapsed + d + lag)
          ELSE /\ \/ 1 \in AllowedBits
                  \/ \E d2 \in ClockSteps, l2 \in ClockLag :
                        BitValue(elapsed + d + d2 + l2) = 0
               /\ lag = 0
               /\ elapsed' = elapsed + d
               /\ UNCHANGED <<pc, data, bits, bit_idx, byte_idx, bit_i>>
    /\ UNCHANGED <<sensor, gpio_dir, gpio_out, retry_i, result, log, ledVars, starts,
                   fails, to_phase, lcd_text, last_good, red_off, delay_ms, idle_ms,
                   start_seq, signals, led_call, pmw_inits, i2c_bus, lcd_backlight, lcd_op,
                   lcdGeom>>

\* checksum test, store of the readings, return of dht11_read_once
ValidateFrame ==
    /\ pc = "checksum"
    /\ sensor' = StoreReadings(sensor, data, ChecksumOk(data))
    /\ result' = ChecksumReturn(ChecksumOk(data))
    /\ log' = IF ChecksumOk(data) THEN log ELSE "Checksum mismatch"
    /\ fails' = IF ChecksumOk(data) THEN fails ELSE Append(fails, "crc")
    /\ last_good' = IF ChecksumOk(data) THEN data ELSE last_good
    /\ pc' = "once_ret"
    /\ UNCHANGED <<gpio_dir, gpio_out, retry_i, onceVars, ledVars, starts, lcd_text,
                   red_off, delay_ms, idle_ms, start_seq, seen_at, signals, led_call,
                   pmw_inits, i2c_bus, lcd_backlight, lcd_op, lcdGeom>>

\* dht11_read_once has returned: its locals (data, bit_idx, byte_idx, i, timeout,
\* start) are gone, and so is the record of what it logged
OnceReturned ==
    /\ data' = <<0, 0, 0, 0, 0>>
    /\ bits' = <<>>
    /\ bit_idx' = 0
    /\ byte_idx' = 0
    /\ bit_i' = 0
    /\ elapsed' = 0
    /\ to_phase' = "none"
    /\ start_seq' = <<>>
    /\ log' = ""

(***************************************************************************)
(* dht11_read: after an attempt                                            *)
(***************************************************************************)
\* as ReadSuccess, without the return
ReadSuccess_NoReturn ==
    /\ pc = "once_ret"
    /\ result = ESP_OK
    /\ rgb_led_set(147, 251, 255)
    /\ signals' = Append(signals, "rgb_led_dht11_read")
    /\ OnceReturned
    /\ delay_ms' = RETRY_DELAY_MS
    /\ pc' = "retry_sleep"
    /\ UNCHANGED <<sensor, gpio_dir, gpio_out, retry_i, result, red_tasks, starts, fails,
                   lcd_text, last_good, red_off, idle_ms, seen_at, led_call,
                   i2c_bus, lcd_backlight, lcd_op, lcdGeom>>

\* result == ESP_OK: rgb_led_dht11_read(), return ESP_OK
ReadSuccess ==
    /\ pc = "once_ret"
    /\ result = ESP_OK
    /\ rgb_led_set(147, 251, 255)
    /\ signals' = Append(signals, "rgb_led_dht11_read")
    /\ OnceReturned
    /\ pc' = "read_ret"
    /\ UNCHANGED <<sensor, gpio_dir, gpio_out, retry_i, result, red_tasks, starts, fails,
                   lcd_text, last_good, red_off, delay_ms, idle_ms, seen_at, led_call,
                   i2c_bus, lcd_backlight, lcd_op, lcdGeom>>

\* as RetryDelay, with the error signalled after every failed attempt
RetryDelay_Signals ==
    /\ pc = "once_ret"
    /\ result # ESP_OK
    /\ OnceReturned
    /\ rgb_led_error
    /\ signals' = Append(signals, "rgb_led_error")
    /\ delay_ms' = RETRY_DELAY_MS
    /\ pc' = "retry_sleep"
    /\ UNCHANGED <<sensor, gpio_dir, gpio_out, retry_i, result, starts, fails,
                   lcd_text, last_good, red_off, idle_ms, seen_at, led_call,
                   i2c_bus, lcd_backlight, lcd_op, lcdGeom>>

\* result != ESP_OK: vTaskDelay(100 ms)
RetryDelay ==
    /\ pc = "once_ret"
    /\ result # ESP_OK
    /\ OnceReturned
    /\ delay_ms' = RETRY_DELAY_MS
    /\ pc' = "retry_sleep"
    /\ UNCHANGED <<sensor, gpio_dir, gpio_out, retry_i, result, ledVars, starts, fails,
                   lcd_text, last_good, red_off, idle_ms, seen_at, signals, led_call,
                   pmw_inits, i2c_bus, lcd_backlight, lcd_op, lcdGeom>>

\* the delay is over: i++
RetryNext ==
    /\ pc = "retry_sleep"
    /\ retry_i' = retry_i + 1
    /\ delay_ms' = 0
    /\ pc' = "read_loop"
    /\ UNCHANGED <<sensor, gpio_dir, gpio_out, result, onceVars, log, ledVars, starts,
                   fails, lcd_text, last_good, red_off, idle_ms, start_seq, seen_at,
                   signals, led_call, pmw_inits, i2c_bus, lcd_backlight, lcd_op, lcdGeom>>

\* loop exhausted: rgb_led_error(), log, return result
ReadFailed ==
    /\ pc = "read_loop"
    /\ ~(retry_i < MaxAttempts)
    /\ rgb_led_error
    /\ signals' = Append(signals, "rgb_led_error")
    /\ log' = "Failed to read from sensor"
    /\ pc' = "read_ret"
    /\ UNCHANGED <<sensor, gpio_dir, gpio_out, retry_i, result, onceVars, starts, fails,
                   lcd_text, last_good, red_off, delay_ms, idle_ms, start_seq, seen_at,
                   led_call, i2c_bus, lcd_backlight, lcd_op, lcdGeom>>

(***************************************************************************)
(* app_main: the branches after dht11_read and the cycle delay             *)
(***************************************************************************)
\* ESP_OK: the two getters are called, their values printed and logged
MainReadOk ==
    /\ pc = "read_ret"
    /\ result = ESP_OK
    /\ lcd_text' = LcdText("Temp/Humidity", dht11_get_temperature(sensor, temp_fahrenheit),
                           dht11_get_humidity(sensor))
    /\ log' = "Temperature, Humidity"
    /\ delay_ms' = xDelay
    /\ pc' = "main_sleep"
    /\ UNCHANGED <<sensor, gpio_dir, gpio_out, retry_i, result, onceVars, ledVars, starts,
                   fails, last_good, red_off, idle_ms, start_seq, seen_at, signals,
                   led_call, pmw_inits, i2c_bus, lcd_backlight, lcd_op, lcdGeom>>

\* any other result: error text on the LCD, log, rgb_led_error()
MainReadError ==
    /\ pc = "read_ret"
    /\ result # ESP_OK
    /\ lcd_text' = LcdText("Sensor Error!", 0, 0)
    /\ log' = "Failed to read from sensor"
    /\ rgb_led_error
    /\ delay_ms' = xDelay
    /\ pc' = "main_sleep"
    /\ UNCHANGED <<sensor, gpio_dir, gpio_out, retry_i, result, onceVars, starts, fails,
                   last_good, red_off, idle_ms, start_seq, seen_at, signals, led_call,
                   i2c_bus, lcd_backlight, lcd_op, lcdGeom>>

\* vTaskDelay(xDelay) is over
MainWake ==
    /\ pc = "main_sleep"
    /\ idle_ms' = idle_ms + delay_ms
    /\ delay_ms' = 0
    /\ pc' = "main_loop"
    /\ UNCHANGED <<sensor, gpio_dir, gpio_out, retry_i, result, onceVars, log, ledVars,
                   starts, fails, lcd_text, last_good, red_off, start_seq, seen_at,
                   signals, led_call, pmw_inits, i2c_bus, lcd_backlight, lcd_op, lcdGeom>>

Next ==
    \/ dht11_init
    \/ ReadCall
    \/ SendStart
    \/ StartRelease
    \/ AwaitAck1
    \/ AwaitAck2
    \/ AwaitAck3
    \/ WaitBitHigh
    \/ MeasureHigh
    \/ ValidateFrame
    \/ ReadSuccess
    \/ RetryDelay
    \/ RetryNext
    \/ ReadFailed
    \/ MainReadOk
    \/ MainReadError
    \/ MainWake

Spec == Init /\ [][Next]_vars

(***************************************************************************)
(* red_led_task (rgb_led.c).  Every instance created by rgb_led_error loops *)
(* over two blocks, each followed by vTaskDelay(1000 ms): red on with      *)
(* green and blue off, then red off.  The instances are created with       *)
(* DHT_SENSOR_TASK_PRIORITY on DHT_SENSOR_TASK_CORE_ID; the code of        *)
(* app_main and dht11_read takes no critical section and does not suspend  *)
(* the scheduler, so an instance whose delay has expired runs between any  *)
(* two steps of app_main.  Spec is app_main alone; SpecTasks adds the      *)
(* instances, which write nothing but the LED duties.                      *)
(***************************************************************************)
RED_BLINK_ON_DUTY == 255

RED_BLINK_OFF_DUTY == 0

\* "Turn red on" of one instance, up to its vTaskDelay
RedLedOn ==
    /\ red_tasks - red_off > 0
    /\ led' = <<RED_BLINK_ON_DUTY, 0, 0>>
    /\ red_off' = red_off + 1
    /\ UNCHANGED <<pc, sensor, gpio_dir, gpio_out, retry_i, result, onceVars, log,
                   g_pmw_init_handle, red_tasks, starts, fails, lcd_text, last_good,
                   delay_ms, idle_ms, start_seq, seen_at, signals, led_call, pmw_inits,
                   i2c_bus, lcd_backlight, lcd_op, lcdGeom>>

\* "Turn red off" of one instance, up to its vTaskDelay
RedLedOff ==
    /\ red_off > 0
    /\ led' = [led EXCEPT ![1] = RED_BLINK_OFF_DUTY]
    /\ red_off' = red_off - 1
    /\ UNCHANGED <<pc, sensor, gpio_dir, gpio_out, retry_i, result, onceVars, log,
                   g_pmw_init_handle, red_tasks, starts, fails, lcd_text, last_good,
                   delay_ms, idle_ms, start_seq, seen_at, signals, led_call, pmw_inits,
                   i2c_bus, lcd_backlight, lcd_op, lcdGeom>>

NextTasks ==
    \/ Next
    \/ RedLedOn
    \/ RedLedOff

SpecTasks == Init /\ [][NextTasks]_vars

\* the task running app_main is scheduled again and again, and every clock
\* read returns a later time than the one before (ClockSteps are positive)
FairSpec == Spec /\ WF_vars(Next)

(***************************************************************************)
(* Checksum validation on its own: dht11_read_once has decoded 40 bits     *)
(* into any frame with bytes of ByteVals and is about to test the checksum.*)
(***************************************************************************)
ByteVals == {0, 1, 2, 127, 128, 254, 255}

InitFrame ==
    /\ pc = "checksum"
    /\ sensor = [gpio_num |-> 4, temperature |-> 0, humidity |-> 0]
    /\ gpio_dir = "INPUT"
    /\ gpio_out = 1
    /\ retry_i = 0
    /\ result = ESP_FAIL
    /\ data \in [1..5 -> ByteVals]
    /\ bits = [k \in 1..FRAME_BITS |-> FrameBit(data, k - 1)]
    /\ bit_idx = 0
    /\ byte_idx = 5
    /\ bit_i = FRAME_BITS
    /\ elapsed = 0
    /\ log = ""
    /\ g_pmw_init_handle = TRUE
    /\ led = <<32, 66, 63>>
    /\ red_tasks = 0
    /\ starts = 1
    /\ fails = <<>>
    /\ to_phase = "none"
    /\ lcd_text = LcdText("", 0, 0)
    /\ last_good = <<>>
    /\ red_off = 0
    /\ delay_ms = 0
    /\ idle_ms = 0
    /\ seen_at = 0
    /\ signals = <<>>
    /\ led_call = NoLedCall
    /\ i2c_bus = <<>>
    /\ lcd_backlight = LCD_BACKLIGHT_ON
    /\ lcd_op = NoLcdOp
    /\ pmw_inits = 1
    /\ start_seq = StartOps \o ReleaseOps
    /\ LcdReady

NextFrame == ValidateFrame

SpecFrame == InitFrame /\ [][NextFrame]_vars

(***************************************************************************)
(* Bit decoding on its own: the handshake is over, the measurement loop of *)
(* a bit has ended and `pulse_width` has been read (elapsed holds it).     *)
(* The first pulse has any width of 0..MaxPulse, the later ones a width of *)
(* PulseWidths, and the bits spell frames whose bytes are in PackVals.     *)
(***************************************************************************)
PulseWidths == {26, 40, 41, 70}

PackVals == {0, 1, 45, 165, 255}

\* bit b may follow the bits already shifted into data[byte_idx]
PackPrefixOk(b) ==
    \E v \in PackVals : v \div Pow2(BYTE_BITS - (bit_idx + 1)) = data[byte_idx + 1] * 2 + b

InitPulse ==
    /\ pc = "pulse_read"
    /\ sensor = [gpio_num |-> 4, temperature |-> 0, humidity |-> 0]
    /\ gpio_dir = "INPUT"
    /\ gpio_out = 1
    /\ retry_i = 0
    /\ result = ESP_FAIL
    /\ data = <<0, 0, 0, 0, 0>>
    /\ bits = <<>>
    /\ bit_idx = 0
    /\ byte_idx = 0
    /\ bit_i = 0
    /\ elapsed \in 0..MaxPulse
    /\ log = ""
    /\ g_pmw_init_handle = TRUE
    /\ led = <<32, 66, 63>>
    /\ red_tasks = 0
    /\ starts = 1
    /\ fails = <<>>
    /\ to_phase = "none"
    /\ lcd_text = LcdText("", 0, 0)
    /\ last_good = <<>>
    /\ red_off = 0
    /\ delay_ms = 0
    /\ idle_ms = 0
    /\ seen_at = 0
    /\ signals = <<>>
    /\ led_call = NoLedCall
    /\ i2c_bus = <<>>
    /\ lcd_backlight = LCD_BACKLIGHT_ON
    /\ lcd_op = NoLcdOp
    /\ pmw_inits = 1
    /\ start_seq = StartOps \o ReleaseOps
    /\ LcdReady

\* pulse_width = now - start has been read: the bit is decoded and stored
DecodeMeasured ==
    /\ pc = "pulse_read"
    /\ DecodeBody(elapsed)
    /\ pc' = "bit_done"
    /\ UNCHANGED <<sensor, gpio_dir, gpio_out, retry_i, result, bit_i, elapsed, log,
                   ledVars, starts, fails, to_phase, lcd_text, last_good, red_off,
                   delay_ms, idle_ms, start_seq, seen_at, signals, led_call, pmw_inits,
                   i2c_bus, lcd_backlight, lcd_op, lcdGeom>>

\* i++ with i < 40: the inter-bit wait and the next measurement, up to the read of
\* pulse_width
NextPulse ==
    /\ pc = "bit_done"
    /\ bit_i + 1 < FRAME_BITS
    /\ bit_i' = bit_i + 1
    /\ \E w \in PulseWidths :
          /\ PackPrefixOk(BitValue(w))
          /\ elapsed' = w
    /\ pc' = "pulse_read"
    /\ UNCHANGED <<sensor, gpio_dir, gpio_out, retry_i, result, data, bits, bit_idx,
                   byte_idx, log, ledVars, starts, fails, to_phase, lcd_text, last_good,
                   red_off, delay_ms, idle_ms, start_seq, seen_at, signals, led_call,
                   pmw_inits, i2c_bus, lcd_backlight, lcd_op, lcdGeom>>

\* i++ with i = 40: the bit loop ends
FrameDone ==
    /\ pc = "bit_done"
    /\ ~(bit_i + 1 < FRAME_BITS)
    /\ bit_i' = bit_i + 1
    /\ elapsed' = 0
    /\ pc' = "checksum"
    /\ UNCHANGED <<sensor, gpio_dir, gpio_out, retry_i, result, data, bits, bit_idx,
                   byte_idx, log, ledVars, starts, fails, to_phase, lcd_text, last_good,
                   red_off, delay_ms, idle_ms, start_seq, seen_at, signals, led_call,
                   pmw_inits, i2c_bus, lcd_backlight, lcd_op, lcdGeom>>

NextPulseRead ==
    \/ DecodeMeasured
    \/ NextPulse
    \/ FrameDone

SpecPulse == InitPulse /\ [][NextPulseRead]_vars

(***************************************************************************)
(* The getters on their own: dht11_read has returned ESP_OK with any       *)
(* temperature byte and a humidity of HumidityVals in the handle.          *)
(***************************************************************************)
HumidityVals == {0, 45, 90}

InitConv ==
    /\ pc = "read_ret"
    /\ sensor \in [gpio_num : {4}, temperature : 0..(TwoTo(BYTE_BITS) - 1),
                    humidity : HumidityVals]
    /\ gpio_dir = "INPUT"
    /\ gpio_out = 1
    /\ retry_i = 0
    /\ result = ESP_OK
    /\ data = <<0, 0, 0, 0, 0>>
    /\ bits = <<>>
    /\ bit_idx = 0
    /\ byte_idx = 0
    /\ bit_i = 0
    /\ elapsed = 0
    /\ log = ""
    /\ g_pmw_init_handle = TRUE
    /\ led = <<147, 251, 255>>
    /\ red_tasks = 0
    /\ starts = 1
    /\ fails = <<>>
    /\ to_phase = "none"
    /\ lcd_text = LcdText("Ready!", 0, 0)
    /\ last_good = <<sensor.humidity, 0, sensor.temperature, 0,
                     (sensor.humidity + sensor.temperature) % 256>>
    /\ red_off = 0
    /\ delay_ms = 0
    /\ idle_ms = 0
    /\ seen_at = 0
    /\ signals = <<"rgb_led_dht11_read">>
    /\ led_call = NoLedCall
    /\ i2c_bus = <<>>
    /\ lcd_backlight = LCD_BACKLIGHT_ON
    /\ lcd_op = NoLcdOp
    /\ pmw_inits = 1
    /\ start_seq = <<>>
    /\ LcdReady

NextConv ==
    \/ MainReadOk
    \/ MainWake

SpecConv == InitConv /\ [][NextConv]_vars

(***************************************************************************)
(* Properties                                                              *)
(***************************************************************************)
\* an attempt is running: from the start pulse to the return of dht11_read_once
InAttempt ==
    pc \in {"start_sleep", "ack_low", "ack_high", "ack_low2", "bit_wait", "bit_measure",
            "checksum"}

\* dht11_read is running
InRead == InAttempt \/ pc \in {"read_loop", "once_ret", "retry_sleep"}

FrameSum == data[1] + data[2] + data[3] + data[4]

\* C1: after dht11_init the handle changes only in the step that ends an attempt
\* which decoded 40 bits and passed the checksum; every other step of every
\* attempt, in particular every timeout and every checksum mismatch, leaves
\* temperature and humidity as they were.
C1_HandleOnlyOnSuccess ==
    [][(pc # "app_init" /\ sensor' # sensor)
          => /\ pc = "checksum"
             /\ bit_i = FRAME_BITS
             /\ data[5] = FrameSum % 256
             /\ result' = ESP_OK
             /\ pc' = "once_ret"]_vars

\* a checksum mismatch after an earlier successful read of another frame
C1_Witness ==
    /\ pc = "once_ret"
    /\ result = ESP_ERR_INVALID_CRC
    /\ sensor.temperature = 50
    /\ sensor.humidity = 90
    /\ data[3] = 23

\* C2: a completed frame is accepted (ESP_OK) iff byte 4 = (byte0+byte1+byte2+byte3)
\* mod 256, and is answered with ESP_ERR_INVALID_CRC otherwise.
C2_AcceptIffChecksum ==
    (pc = "once_ret" /\ to_phase = "none")
       => /\ (result = ESP_OK) <=> (data[5] = FrameSum % 256)
          /\ (result # ESP_OK) => (result = ESP_ERR_INVALID_CRC)

\* an accepted frame whose byte sum exceeds 255
C2_Witness ==
    /\ pc = "once_ret"
    /\ result = ESP_OK
    /\ FrameSum > 255

C4_ReturnOnFirstSuccess ==
    /\ []((pc = "once_ret" /\ result = ESP_OK)
            => /\ sensor.temperature = data[3]
               /\ sensor.humidity = data[1]
               /\ starts = Len(fails) + 1)
    /\ []((pc = "read_ret" /\ result = ESP_OK) => starts = Len(fails) + 1)
    /\ [][(pc = "once_ret" /\ result = ESP_OK)
            => /\ pc' = "read_ret"
               /\ result' = ESP_OK
               /\ starts' = starts
               /\ sensor' = sensor]_vars

\* success on the second attempt
C4_Witness ==
    /\ pc = "read_ret"
    /\ result = ESP_OK
    /\ starts = 2
    /\ Len(fails) = 1
    /\ sensor.temperature = 23

\* the program is in one of the polling loops of dht11_read_once
InPollLoop == pc \in {"ack_low", "ack_high", "ack_low2", "bit_wait", "bit_measure"}

\* C5: under FairSpec every dht11_read call returns, whatever the line does: a
\* running call always reaches its return, no call sends more than 3 start pulses,
\* and every iteration that stays in a polling loop (handshake wait, inter-bit wait
\* or high-pulse measurement) reads a later clock value that is still within the
\* 100 us budget, so that no loop is iterated without end.
C5_ReadTerminates ==
    /\ [](starts <= 3)
    /\ InRead ~> (pc = "read_ret")
    /\ [][(InPollLoop /\ pc' = pc /\ bit_i' = bit_i)
            => (elapsed' > elapsed /\ elapsed' <= WAIT_TIMEOUT_US)]_vars

\* a call returns after three timeouts, the last in the inter-bit wait of bit 39
C5_Witness ==
    /\ pc = "once_ret"
    /\ starts = 3
    /\ fails = <<"timeout", "timeout", "timeout">>
    /\ to_phase = "bit"
    /\ bit_i = FRAME_BITS - 1

\* C6: the step in which an inter-bit wait exceeds its budget ends the attempt with
\* ESP_ERR_TIMEOUT, decoding no further bit and leaving the frame buffer and the
\* handle alone; the checksum is tested only with exactly 40 bits decoded, and an
\* attempt that timed out at bit i returns with i < 40 bits and no checksum verdict.
C6_BitTimeoutAborts ==
    /\ [](pc = "checksum" => (bit_i = FRAME_BITS /\ byte_idx = 5 /\ bit_idx = 0))
    /\ []((pc = "once_ret" /\ to_phase = "bit")
            => (bit_i < FRAME_BITS /\ result = ESP_ERR_TIMEOUT /\ log # "Checksum mismatch"))
    /\ []((pc = "once_ret" /\ result \in {ESP_OK, ESP_ERR_INVALID_CRC}) => bit_i = FRAME_BITS)
    /\ [][(pc = "bit_wait" /\ elapsed' > WAIT_TIMEOUT_US)
            => /\ pc' = "once_ret"
               /\ result' = ESP_ERR_TIMEOUT
               /\ UNCHANGED <<sensor, data, bit_i, bit_idx, byte_idx>>]_vars

\* a timeout in the inter-bit wait of bit 17, with 17 bits decoded
C6_Witness ==
    /\ pc = "once_ret"
    /\ to_phase = "bit"
    /\ bit_i = 17
    /\ data[1] = 45
    /\ result = ESP_ERR_TIMEOUT

C8_FailureCausesDisjoint ==
    pc = "once_ret"
       => /\ result \in {ESP_OK, ESP_ERR_TIMEOUT, ESP_ERR_INVALID_CRC}
          /\ (result = ESP_ERR_INVALID_CRC)
                => (to_phase = "none" /\ bit_i = FRAME_BITS /\ data[5] # FrameSum % 256)
          /\ (result = ESP_ERR_TIMEOUT)
                => (to_phase \in TimeoutPhases /\ bit_i < FRAME_BITS)
          /\ (to_phase \in TimeoutPhases) => (result = ESP_ERR_TIMEOUT)
          /\ (to_phase = "none" /\ data[5] # FrameSum % 256) => (result = ESP_ERR_INVALID_CRC)

\* the line stuck high during the bits: 40 ones, checksum mismatch
C8_Witness ==
    /\ pc = "once_ret"
    /\ result = ESP_ERR_INVALID_CRC
    /\ data = <<255, 255, 255, 255, 255>>

\* position of the attempt in  SendStart, AwaitAck1, AwaitAck2, AwaitAck3,
\* ReadBits 0..39 (wait, then measure), Done
PhaseNo ==
    CASE pc = "start_sleep" -> 0
      [] pc = "ack_low" -> 1
      [] pc = "ack_high" -> 2
      [] pc = "ack_low2" -> 3
      [] pc = "bit_wait" -> 4 + 2 * bit_i
      [] pc = "bit_measure" -> 5 + 2 * bit_i
      [] pc = "checksum" -> 4 + 2 * FRAME_BITS
      [] OTHER -> -1

\* C9: an attempt starts with the start pulse; each of its steps stays in its phase,
\* moves to the phase that follows it in the order above, or leaves the attempt
\* (a timeout before Done, the return after Done); an attempt whose AwaitAck2 timed
\* out has read no bit.
C9_PhaseOrder ==
    /\ [][(pc = "read_loop" /\ pc' # pc) => pc' \in {"start_sleep", "read_ret"}]_vars
    /\ [][(pc' = "start_sleep" /\ pc # pc') => pc = "read_loop"]_vars
    /\ [][InAttempt
            => \/ InAttempt' /\ PhaseNo' \in {PhaseNo, PhaseNo + 1}
               \/ /\ pc' = "once_ret"
                  /\ (pc = "checksum") <=> (result' # ESP_ERR_TIMEOUT)]_vars
    /\ []((pc = "once_ret" /\ to_phase = "ack_high")
            => (bit_i = 0 /\ data = <<0, 0, 0, 0, 0>> /\ result = ESP_ERR_TIMEOUT))

\* the line never rises during AwaitAck2
C9_Witness ==
    /\ pc = "once_ret"
    /\ to_phase = "ack_high"
    /\ bit_i = 0
    /\ elapsed > WAIT_TIMEOUT_US

\* C10 as stated (DHT11.h): dht11_read returns ESP_OK or ESP_FAIL.
C10_ReturnsOkOrFail ==
    pc = "read_ret" => result \in {ESP_OK, ESP_FAIL}

\* the value of the bit stored by the last decode step
DecodedBit == IF bit_idx = 0 THEN data[byte_idx] % 2 ELSE data[byte_idx + 1] % 2

\* C11: a measured high-pulse width w is decoded to 1 iff w > 40 us: the bit stored
\* by the decode step is 1 exactly when the pulse width read before it exceeds 40;
\* widths 26 and 40 give 0, widths 41 and 70 give 1.
C11_ThresholdDecode ==
    pc = "bit_done"
       => /\ DecodedBit \in {0, 1}
          /\ (DecodedBit = 1) <=> (elapsed > 40)
          /\ elapsed \in {26, 40} => DecodedBit = 0
          /\ elapsed \in {41, 70} => DecodedBit = 1

\* a pulse of 41 us decoded as the first bit of a frame
C11_Witness ==
    /\ pc = "bit_done"
    /\ bit_i = 0
    /\ elapsed = 41
    /\ data[1] = 1

\* bit n (1..) of a bit sequence, 0 when it has not arrived yet
BitAt(b, n) == IF n <= Len(b) THEN b[n] ELSE 0

\* sum over j in 0..7 of b[8k+j] * 2^(7-j), bits counted from 0
ByteOfBits(b, k) ==
    BitAt(b, 8 * k + 1) * 128 + BitAt(b, 8 * k + 2) * 64 + BitAt(b, 8 * k + 3) * 32
      + BitAt(b, 8 * k + 4) * 16 + BitAt(b, 8 * k + 5) * 8 + BitAt(b, 8 * k + 6) * 4
      + BitAt(b, 8 * k + 7) * 2 + BitAt(b, 8 * k + 8)

\* number of bits of byte k that have arrived
BitsInByte(b, k) ==
    IF Len(b) >= 8 * k + 8 THEN 8 ELSE IF Len(b) <= 8 * k THEN 0 ELSE Len(b) - 8 * k

\* C12: the decoded bits are packed MSB first, 8 per byte, in arrival order: with
\* b the sequence of bits decoded so far, every complete byte k of the buffer is
\* the sum over j in 0..7 of b[8k+j]*2^(7-j), the byte being filled holds the bits
\* it has received as its low bits, every byte is in 0..255, and the bit loop ends
\* with 40 bits in 5 complete bytes.
C12_MsbFirstPacking ==
    /\ \A k \in 0..4 :
          /\ data[k + 1] \in 0..255
          /\ data[k + 1] = ByteOfBits(bits, k) \div Pow2(8 - BitsInByte(bits, k))
          /\ Len(bits) >= 8 * k + 8 => data[k + 1] = ByteOfBits(bits, k)
    /\ Len(bits) = 8 * byte_idx + bit_idx
    /\ pc = "pulse_read" => Len(bits) = bit_i
    /\ pc = "checksum" => Len(bits) = FRAME_BITS

\* the 40 bits of the frame A5 01 2D 00 FF have been decoded
C12_Witness ==
    /\ pc = "checksum"
    /\ data = <<165, 1, 45, 0, 255>>
    /\ SubSeq(bits, 1, 16) = <<1, 0, 1, 0, 0, 1, 0, 1, 0, 0, 0, 0, 0, 0, 0, 1>>

\* C13: when an attempt returns ESP_OK the handle holds humidity = byte 0 and
\* temperature = byte 2 of the frame it decoded; after a complete handshake the
\* frame {45, 0, 23, 0, 68} is accepted with temperature 23 and humidity 45.
C13_ReadingsFromBytes ==
    /\ (pc = "once_ret" /\ result = ESP_OK)
          => /\ sensor.humidity = data[1]
             /\ sensor.temperature = data[3]
             /\ to_phase = "none"
    /\ (pc = "once_ret" /\ data = <<45, 0, 23, 0, 68>> /\ bit_i = FRAME_BITS)
          => /\ result = ESP_OK
             /\ sensor.temperature = 23
             /\ sensor.humidity = 45

\* frame {45, 0, 23, 0, 68} accepted on the first attempt of a call
C13_Witness ==
    /\ pc = "once_ret"
    /\ result = ESP_OK
    /\ data = <<45, 0, 23, 0, 68>>
    /\ starts = 1
    /\ sensor.temperature = 23
    /\ sensor.humidity = 45

\* C14: when a frame has passed the checksum test, every frame that differs from
\* it in exactly one of the 5 bytes (any other value of 0..255 in that place)
\* fails the test and is answered with ESP_ERR_INVALID_CRC.
C14_SingleByteChangeRejected ==
    (pc = "once_ret" /\ result = ESP_OK)
       => \A k \in 1..5 : \A v \in (0..255) \ {data[k]} :
             /\ ~ChecksumOk([data EXCEPT ![k] = v])
             /\ ChecksumReturn(ChecksumOk([data EXCEPT ![k] = v])) = ESP_ERR_INVALID_CRC

\* an accepted frame whose byte sum wraps: {255, 2, 254, 1, 0}
C14_Witness ==
    /\ pc = "once_ret"
    /\ result = ESP_OK
    /\ data = <<255, 2, 254, 1, 0>>

\* C15: at every point after dht11_init, dht11_get_humidity and
\* dht11_get_temperature (Celsius) return bytes 0 and 2 of the frame of the most
\* recent successful attempt, or 0 and 0 when no attempt has succeeded yet; the
\* step of app_main that calls the getters leaves the handle and the line as they
\* were, sends no start pulse and prints the humidity it was given.
C15_GettersReturnLastRead ==
    /\ [](pc # "app_init"
            => /\ last_good = <<>>
                    => /\ dht11_get_humidity(sensor) = 0
                       /\ dht11_get_temperature(sensor, FALSE) = 0
               /\ last_good # <<>>
                    => /\ dht11_get_humidity(sensor) = last_good[1]
                       /\ dht11_get_temperature(sensor, FALSE) = last_good[3])
    /\ [][(pc = "read_ret" /\ result = ESP_OK)
            => /\ UNCHANGED <<sensor, gpio_dir, gpio_out, starts>>
               /\ last_good # <<>>
               /\ lcd_text'.humidity = last_good[1]]_vars

\* a read has failed on a checksum mismatch after an earlier read of {90,200,50,7,91}
C15_Witness ==
    /\ pc = "main_sleep"
    /\ lcd_text.msg = "Sensor Error!"
    /\ fails[3] = "crc"
    /\ last_good = <<90, 200, 50, 7, 91>>
    /\ dht11_get_humidity(sensor) = 90
    /\ dht11_get_temperature(sensor, FALSE) = 50

\* C16: for every c that is a multiple of 5 in 0..50 the float returned by
\* dht11_celsius_to_fahrenheit(c) is exactly the integer c*9/5+32, and it is the
\* number app_main prints as the temperature; 25 gives 77 and 0 gives 32.
C16_FahrenheitExact ==
    pc = "main_sleep"
       => LET c == sensor.temperature
          IN  /\ (c \in 0..50 /\ c % 5 = 0)
                    => /\ F32IsInt(dht11_celsius_to_fahrenheit(c), (c * 9) \div 5 + 32)
                       /\ lcd_text.temperature = (c * 9) \div 5 + 32
              /\ c = 25 => (lcd_text.temperature = 77
                              /\ F32IsInt(dht11_celsius_to_fahrenheit(c), 77))
              /\ c = 0 => (lcd_text.temperature = 32
                             /\ F32IsInt(dht11_celsius_to_fahrenheit(c), 32))

\* 25 degrees Celsius printed as 77
C16_Witness ==
    /\ pc = "main_sleep"
    /\ sensor.temperature = 25
    /\ lcd_text.msg = "Temp/Humidity"
    /\ lcd_text.temperature = 77

\* the line has been polled in the current attempt and will be polled again
BetweenPolls == InPollLoop /\ ~(pc = "ack_low" /\ elapsed = 0)

\* C17 as stated: between two consecutive polls of the line in an attempt no
\* red_led_task instance runs (none executes one of its two blocks).
C17_PollingUninterrupted ==
    [][BetweenPolls => (red_off' = red_off /\ led' = led)]_vars

\* the timing-critical window of an attempt: from the switch to input to the return
InWindow == InAttempt /\ gpio_dir = "INPUT"

\* C18: app_main's task is never blocked in vTaskDelay inside the timing-critical
\* window: a sleep is in progress only during the start pulse (line driven low for
\* 20 ms, before the switch to input), after a failed attempt has returned (100 ms)
\* and in app_main after dht11_read has returned; no step taken inside the window
\* starts a sleep.
C18_NoSleepInWindow ==
    /\ [](InWindow => delay_ms = 0)
    /\ [](delay_ms > 0
            => \/ /\ pc = "start_sleep"
                  /\ delay_ms = START_LOW_MS
                  /\ gpio_dir = "OUTPUT_OD"
                  /\ gpio_out = 0
                  /\ start_seq = StartOps
               \/ ~InAttempt /\ start_seq = <<>>)
    /\ [][InWindow => delay_ms' = 0]_vars

\* the inter-bit wait of bit 20 has been polled three times without a high level
C18_Witness ==
    /\ pc = "bit_wait"
    /\ bit_i = 20
    /\ elapsed >= 60
    /\ gpio_dir = "INPUT"
    /\ delay_ms = 0

\* C19: app_main calls dht11_read only after it has slept at least 2000 ms since
\* the previous call returned (or since dht11_init); after a call has returned,
\* with ESP_OK or with a failure, app_main sleeps xDelay >= 2000 ms before the next
\* one; a call begins only in app_main's loop, when no call is running.
C19_ReadsTwoSecondsApart ==
    /\ [][(pc = "main_loop" /\ pc' = "read_loop") => idle_ms >= 2000]_vars
    /\ [][pc = "read_ret"
            => (pc' = "main_sleep" /\ delay_ms' >= 2000 /\ starts' = starts)]_vars
    /\ [][pc = "main_sleep" => (pc' = "main_loop" /\ idle_ms' >= 2000)]_vars
    /\ [][(starts' = 0 /\ pc' = "read_loop") => (pc = "main_loop" /\ ~InRead)]_vars
    /\ [](InRead => idle_ms = 0)

\* app_main is about to call dht11_read again, 60 s after a failed call
C19_Witness ==
    /\ pc = "main_loop"
    /\ idle_ms = 60000
    /\ lcd_text.msg = "Sensor Error!"
    /\ result # ESP_OK
    /\ starts = 3

WaitPcs == {"ack_low", "ack_high", "ack_low2", "bit_wait"}

\* C21 as stated: a wait completes only with its level read at most 100 us after
\* the wait began, and reports a timeout whenever the clock passes 100 us without
\* the level.
C21_SeenWithinBudget ==
    /\ [](seen_at <= WAIT_TIMEOUT_US)
    /\ [][(pc \in WaitPcs /\ elapsed' > WAIT_TIMEOUT_US)
            => (pc' = "once_ret" /\ result' = ESP_ERR_TIMEOUT)]_vars

\* C21 amended: the budget is tested at the clock reads, which follow the
\* unsuccessful polls.  A wait completes only when the clock reading before the
\* successful poll was at most 100 us; the level itself is read up to one polling
\* interval later, possibly after more than 100 us.  A clock reading above 100 us
\* after an unsuccessful poll ends the attempt with ESP_ERR_TIMEOUT.
C21_BudgetTestedAtClockRead ==
    /\ [](pc \in WaitPcs => elapsed <= WAIT_TIMEOUT_US)
    /\ [](seen_at <= WAIT_TIMEOUT_US + MaxTick)
    /\ [][(pc \in WaitPcs /\ pc' \notin {pc, "once_ret"})
            => (seen_at' > 0 /\ seen_at' >= elapsed /\ seen_at' - elapsed <= MaxTick)]_vars
    /\ [][(pc \in WaitPcs /\ elapsed' > WAIT_TIMEOUT_US)
            => (pc' = "once_ret" /\ result' = ESP_ERR_TIMEOUT /\ seen_at' = 0)]_vars

\* an inter-bit wait has completed with the high level read after more than 100 us
C21_Witness ==
    /\ pc = "bit_measure"
    /\ seen_at > WAIT_TIMEOUT_US
    /\ elapsed = 0
    /\ bit_i = 3

\* the frame decoded from a line that stays high
AllOnes == <<255, 255, 255, 255, 255>>

\* the shortest time between two clock readings
MinStep == MaxTick - 1

\* C22: the high-pulse measurement never ends an attempt: a pulse still high
\* when the clock passes 100 us leaves the loop, is decoded as 1 and decoding goes
\* on with the next bit (or the checksum); forty such bits give the frame
\* 255,255,255,255,255, which is rejected with the checksum outcome and stores
\* nothing.
C22_LongPulseDecodesOne ==
    /\ [](pc = "bit_measure" => elapsed <= WAIT_TIMEOUT_US)
    /\ [][pc = "bit_measure" => (pc' \in {"bit_measure", "bit_wait", "checksum"}
                                  /\ fails' = fails /\ result' = result)]_vars
    /\ [][(pc = "bit_measure" /\ elapsed + MinStep > WAIT_TIMEOUT_US)
            => (/\ bits' = Append(bits, 1)
                /\ bit_i' = bit_i + 1
                /\ pc' = IF bit_i' < FRAME_BITS THEN "bit_wait" ELSE "checksum")]_vars
    /\ []((pc = "checksum" /\ bits = [i \in 1..FRAME_BITS |-> 1]) => data = AllOnes)
    /\ [][(pc = "checksum" /\ data = AllOnes)
            => (/\ pc' = "once_ret"
                /\ result' = ESP_ERR_INVALID_CRC
                /\ result' # ESP_OK
                /\ sensor' = sensor)]_vars

\* an attempt whose forty pulses all outlasted the budget was rejected
C22_Witness ==
    /\ pc = "once_ret"
    /\ data = AllOnes
    /\ Len(bits) = FRAME_BITS
    /\ result = ESP_ERR_INVALID_CRC
    /\ fails # <<>>
    /\ fails[Len(fails)] = "crc"

\* C23: the 100 ms delay of dht11_read is taken only when another attempt of the
\* same call follows it: never after a successful attempt and never after the
\* last failed attempt.
C23_DelayOnlyBetweenAttempts ==
    /\ [](pc = "retry_sleep" => retry_i + 1 < MaxAttempts)
    /\ [][(pc = "once_ret" /\ result = ESP_OK)
            => (pc' = "read_ret" /\ delay_ms' = delay_ms)]_vars
    /\ [][(pc = "once_ret" /\ result # ESP_OK /\ retry_i + 1 = MaxAttempts)
            => pc' # "retry_sleep"]_vars

\* the frame with the fraction bytes f and g in place of those of d, and the
\* checksum byte that belongs to it
WithFractions(d, f, g) ==
    [d EXCEPT ![2] = f, ![4] = g, ![5] = (d[1] + f + d[3] + g) % 256]

\* C24: the fraction bytes are not assumed to be 0.  A frame is accepted exactly
\* when its last byte is the sum of all four bytes before it modulo 256, whatever
\* bytes 1 and 3 hold; an accepted frame is rejected once its fraction bytes are
\* zeroed without the checksum following; the readings stored are bytes 0 and 2,
\* the same for every pair of fraction bytes.
C24_FractionBytesSummedNotStored ==
    [][pc = "checksum"
        => /\ (result' = ESP_OK) <=> (data[5] = (data[1] + data[2] + data[3] + data[4]) % 256)
           /\ (result' = ESP_OK /\ (data[2] + data[4]) % 256 # 0)
                 => ~ChecksumOk([data EXCEPT ![2] = 0, ![4] = 0])
           /\ result' = ESP_OK
                 => /\ sensor'.humidity = data[1]
                    /\ sensor'.temperature = data[3]
                    /\ \A f, g \in ByteVals :
                          /\ ChecksumOk(WithFractions(data, f, g))
                          /\ StoreReadings(sensor, WithFractions(data, f, g), TRUE) = sensor'
       ]_vars

\* the frame {1, 2, 127, 128, 2} has been accepted: both fraction bytes nonzero
C24_Witness ==
    /\ pc = "once_ret"
    /\ result = ESP_OK
    /\ data = <<1, 2, 127, 128, 2>>
    /\ sensor.humidity = 1
    /\ sensor.temperature = 127

C26_OneSignalPerRead ==
    /\ [](InRead => signals = <<>>)
    /\ []((pc = "read_ret" /\ result = ESP_OK) => signals = <<"rgb_led_dht11_read">>)
    /\ []((pc = "read_ret" /\ result # ESP_OK)
             => (signals = <<"rgb_led_error">> /\ Len(fails) = DHT_READ_RETRIES))
    /\ [][(InRead /\ (signals' # signals \/ led' # led \/ red_tasks' # red_tasks))
            => pc' = "read_ret"]_vars

\* a call has returned ESP_OK after two failed attempts, with one signal
C26_Witness ==
    /\ pc = "read_ret"
    /\ result = ESP_OK
    /\ Len(fails) = 2
    /\ signals = <<"rgb_led_dht11_read">>
    /\ led = <<147, 251, 255>>

\* C27: at any time at most one red_led_task exists, however many read cycles
\* have failed.
C27_AtMostOneBlinkTask == red_tasks <= 1

\* C28: once rgb_led_dht11_read has set the duties to (147, 251, 255), also
\* after an earlier failed cycle, they keep that colour for as long as that call
\* is the last LED function app_main's task has called: no red_led_task changes
\* them.
C28_ColourKeptAfterRead ==
    [][(signals = <<"rgb_led_dht11_read">> /\ led = <<147, 251, 255>>) => led' = led]_vars

(***************************************************************************)
(* The LED functions called from two tasks: app_main's task and the task   *)
(* created by wifi_app_start.  A task can be preempted between any two     *)
(* statements of rgb_led.c.                                                *)
(***************************************************************************)
\* the LED functions each task calls
LedFns(t) ==
    IF t = "app_main" THEN {"rgb_led_dht11_started", "rgb_led_dht11_read"}
    ELSE {"rgb_led_wifi_app_started", "rgb_led_http_server_started",
          "rgb_led_wifi_connected"}

\* the arguments of rgb_led_set_color in each function
LedColour(fn) ==
    CASE fn = "rgb_led_wifi_app_started" -> <<255, 102, 255>>
      [] fn = "rgb_led_http_server_started" -> <<204, 102, 51>>
      [] fn = "rgb_led_wifi_connected" -> <<0, 255, 153>>
      [] fn = "rgb_led_dht11_started" -> <<32, 66, 63>>
      [] fn = "rgb_led_dht11_read" -> <<147, 251, 255>>

\* app_main after wifi_app_start(), before dht11_init
InitLed ==
    /\ Init
    /\ sensor = [gpio_num |-> 0, temperature |-> 0, humidity |-> 0]

ledCallFrame ==
    <<pc, sensor, gpio_dir, gpio_out, retry_i, result, onceVars, log, red_tasks, starts,
      fails, lcd_text, last_good, red_off, delay_ms, idle_ms, start_seq, seen_at, signals,
      i2c_bus, lcd_backlight, lcd_op, lcdGeom>>

\* task t enters an LED function:  if (g_pmw_init_handle == false)
LedEnter(t) ==
    /\ led_call[t].at = "idle"
    /\ \E f \in LedFns(t) :
          led_call' = [led_call EXCEPT
                          ![t] = [fn |-> f,
                                  at |-> IF g_pmw_init_handle THEN "set_color" ELSE "pmw_init"]]
    /\ UNCHANGED <<ledCallFrame, g_pmw_init_handle, led, pmw_inits>>

\* rgb_led_pmw_init up to the last ledc_channel_config: timer and the three
\* channels configured, each with duty 0
PmwInitConfig(t) ==
    /\ led_call[t].at = "pmw_init"
    /\ led' = <<0, 0, 0>>
    /\ pmw_inits' = pmw_inits + 1
    /\ led_call' = [led_call EXCEPT ![t].at = "pmw_flag"]
    /\ UNCHANGED <<ledCallFrame, g_pmw_init_handle>>

\* g_pmw_init_handle = true; rgb_led_pmw_init returns
PmwInitDone(t) ==
    /\ led_call[t].at = "pmw_flag"
    /\ g_pmw_init_handle' = TRUE
    /\ led_call' = [led_call EXCEPT ![t].at = "set_color"]
    /\ UNCHANGED <<ledCallFrame, led, pmw_inits>>

\* rgb_led_set_color(r, g, b); the LED function returns
LedSetColor(t) ==
    /\ led_call[t].at = "set_color"
    /\ led' = LedColour(led_call[t].fn)
    /\ led_call' = [led_call EXCEPT ![t] = [fn |-> "none", at |-> "idle"]]
    /\ UNCHANGED <<ledCallFrame, g_pmw_init_handle, pmw_inits>>

NextLed ==
    \E t \in LedTasks :
        \/ LedEnter(t)
        \/ PmwInitConfig(t)
        \/ PmwInitDone(t)
        \/ LedSetColor(t)

SpecLed == InitLed /\ [][NextLed]_vars

\* C29: whatever the interleaving of the LED functions of the two tasks,
\* rgb_led_pmw_init configures the PWM at most once, and a colour is set only
\* after that one initialisation has completed.
C29_PwmInitOnce ==
    /\ [](pmw_inits <= 1)
    /\ [][(\E t \in LedTasks : led_call[t].at = "set_color" /\ led_call'[t].at = "idle")
            => (g_pmw_init_handle /\ pmw_inits = 1)]_vars

(***************************************************************************)
(* LiquidCrystal_I2C.c: a byte sent to the HD44780 as two nibbles through  *)
(* the PCF8574.                                                            *)
(***************************************************************************)
RECURSIVE BitAnd(_, _)
BitAnd(a, b) ==
    IF a = 0 \/ b = 0 THEN 0 ELSE (a % 2) * (b % 2) + 2 * BitAnd(a \div 2, b \div 2)

RECURSIVE BitOr(_, _)
BitOr(a, b) ==
    IF a = 0 THEN b
    ELSE IF b = 0 THEN a
    ELSE (IF (a % 2) + (b % 2) > 0 THEN 1 ELSE 0) + 2 * BitOr(a \div 2, b \div 2)

\* cmd & 0xF0
UpperNibble(v) == BitAnd(v, 240)

\* as LowerNibble, without the shift
LowerNibble_Unshifted(v) == BitAnd(v, 240)

\* (cmd << 4) & 0xF0
LowerNibble(v) == BitAnd(v * 16, 240)

\* lcd_pulse_enable: enable high, then low (~LCD_ENABLE_PIN within a uint8_t)
lcd_pulse_enable(byte) ==
    <<BitOr(byte, LCD_ENABLE_PIN), BitAnd(byte, 255 - LCD_ENABLE_PIN)>>

\* as lcd_write_nibble, without the backlight state
lcd_write_nibble_NoBacklight(nibble, bl) == <<nibble>> \o lcd_pulse_enable(nibble)

\* lcd_write_nibble: the byte with the backlight bit, then the enable pulse
lcd_write_nibble(nibble, bl) ==
    <<BitOr(nibble, bl)>> \o lcd_pulse_enable(BitOr(nibble, bl))

\* the parts of the state the LCD functions leave alone
appFrame ==
    <<pc, sensor, gpio_dir, gpio_out, retry_i, result, onceVars, log, ledVars, starts,
      fails, lcd_text, last_good, red_off, delay_ms, idle_ms, start_seq, seen_at, signals,
      led_call, pmw_inits>>

\* what a transfer of one byte leaves alone
lcdFrame == <<appFrame, lcdGeom>>

\* lcd_send_command(cmd): upper nibble, lower nibble, RS low
lcd_send_command ==
    /\ \E cmd \in 0..255 :
          /\ i2c_bus' = lcd_write_nibble(UpperNibble(cmd), lcd_backlight)
                            \o lcd_write_nibble(LowerNibble(cmd), lcd_backlight)
          /\ lcd_op' = [rs |-> 0, v |-> cmd]
    /\ UNCHANGED <<lcdFrame, lcd_backlight>>

\* lcd_send_data(data): upper nibble, lower nibble, RS high
lcd_send_data ==
    /\ \E d \in 0..255 :
          /\ i2c_bus' = lcd_write_nibble(BitOr(UpperNibble(d), LCD_RS_PIN), lcd_backlight)
                            \o lcd_write_nibble(BitOr(LowerNibble(d), LCD_RS_PIN), lcd_backlight)
          /\ lcd_op' = [rs |-> 1, v |-> d]
    /\ UNCHANGED <<lcdFrame, lcd_backlight>>

\* no_backlight()
no_backlight ==
    /\ lcd_backlight' = LCD_BACKLIGHT_OFF
    /\ i2c_bus' = <<0>>
    /\ lcd_op' = NoLcdOp
    /\ UNCHANGED lcdFrame

\* backlight()
backlight ==
    /\ lcd_backlight' = LCD_BACKLIGHT_ON
    /\ i2c_bus' = <<LCD_BACKLIGHT_ON>>
    /\ lcd_op' = NoLcdOp
    /\ UNCHANGED lcdFrame

\* app_main before the LCD is used
InitLcd ==
    /\ Init
    /\ sensor = [gpio_num |-> 0, temperature |-> 0, humidity |-> 0]

NextLcd ==
    \/ lcd_send_command
    \/ lcd_send_data
    \/ no_backlight
    \/ backlight

SpecLcd == InitLcd /\ [][NextLcd]_vars

\* bit k of the byte x
BitOf(x, k) == (x \div TwoTo(k)) % 2

\* C30: a byte v sent as a command or as data is written as six bytes: three
\* with the upper nibble of v on the data lines D7..D4, then three with the
\* lower nibble; in each group the enable bit is 0, 1, 0; the register select
\* bit is 0 in all six for a command and 1 for data; the nibbles present at the
\* two falling edges of enable, put together, are v.
C30_NibblesUpperFirst ==
    lcd_op # NoLcdOp
       => /\ Len(i2c_bus) = 6
          /\ \A k \in 1..3 : i2c_bus[k] \div 16 = lcd_op.v \div 16
          /\ \A k \in 4..6 : i2c_bus[k] \div 16 = lcd_op.v % 16
          /\ \A k \in {1, 3, 4, 6} : BitOf(i2c_bus[k], 2) = 0
          /\ \A k \in {2, 5} : BitOf(i2c_bus[k], 2) = 1
          /\ \A k \in 1..6 : BitOf(i2c_bus[k], 0) = lcd_op.rs
          /\ \A k \in 1..6 : BitOf(i2c_bus[k], 3) * LCD_BACKLIGHT_ON = lcd_backlight
          /\ (i2c_bus[3] \div 16) * 16 + i2c_bus[6] \div 16 = lcd_op.v
          /\ (i2c_bus[2] \div 16) * 16 + i2c_bus[5] \div 16 = lcd_op.v

\* the character 'A' (0x41) sent as data with the backlight on
C30_Witness ==
    /\ lcd_op = [rs |-> 1, v |-> 65]
    /\ i2c_bus = <<73, 77, 73, 25, 29, 25>>

(***************************************************************************)
(* LiquidCrystal_I2C.c: initialisation, display size and cursor position   *)
(***************************************************************************)
\* LiquidCrystal_I2C.h: HD44780 commands and their flags
LCD_CLEAR_DISPLAY == 1
LCD_ENTRY_MODE == 4
LCD_DISPLAY_ON_OFF == 8
LCD_FUNCTION_SET == 32
LCD_SET_DDRAM_ADDRESS == 128
LCD_4_BIT_MODE == 0
LCD_2_LINE_MODE == 8
LCD_5x8_DOTS_MODE == 0
LCD_ENTRY_LEFT == 2
LCD_ENTRY_SHIFT_DECREMENT == 0
LCD_DISPLAY_ON == 4
LCD_DISPLAY_OFF == 0
LCD_CURSOR_ON == 2
LCD_CURSOR_OFF == 0
LCD_BLINK_ON == 1
LCD_BLINK_OFF == 0

\* uint8_t row_offsets[] = {0x00, 0x40, 0x14, 0x54}
row_offsets == <<0, 64, 20, 84>>

\* the six bytes of lcd_send_command (rs = 0) or lcd_send_data (rs = LCD_RS_PIN)
lcd_send(v, rs, bl) ==
    lcd_write_nibble(BitOr(UpperNibble(v), rs), bl)
       \o lcd_write_nibble(BitOr(LowerNibble(v), rs), bl)

\* a | b | c | d
BitOr4(a, b, c, d) == BitOr(BitOr(a, b), BitOr(c, d))

\* the bytes liquid_crystal_i2c_init writes once the I2C master is ready
LcdInitSequence(bl) ==
    lcd_write_nibble(48, bl) \o lcd_write_nibble(48, bl)
       \o lcd_write_nibble(48, bl) \o lcd_write_nibble(32, bl)
       \o lcd_send(BitOr4(LCD_FUNCTION_SET, LCD_4_BIT_MODE, LCD_2_LINE_MODE,
                          LCD_5x8_DOTS_MODE), 0, bl)
       \o lcd_send(BitOr(LCD_DISPLAY_ON_OFF, LCD_DISPLAY_OFF), 0, bl)
       \o lcd_send(LCD_CLEAR_DISPLAY, 0, bl)
       \o lcd_send(BitOr4(LCD_ENTRY_MODE, LCD_ENTRY_LEFT, LCD_ENTRY_SHIFT_DECREMENT, 0),
                   0, bl)
       \o lcd_send(BitOr4(LCD_DISPLAY_ON_OFF, LCD_DISPLAY_ON, LCD_CURSOR_OFF, LCD_BLINK_OFF),
                   0, bl)
       \o <<LCD_BACKLIGHT_ON>>

\* LcdInitSequence for either backlight state, computed once
LcdInitWrites ==
    [bl \in {LCD_BACKLIGHT_OFF, LCD_BACKLIGHT_ON} |-> LcdInitSequence(bl)]

\* display sizes passed to liquid_crystal_i2c_init and begin
SizeVals == {0, 2, 4, 5, 16, 20, 255}

\* columns and rows passed to lcd_set_cursor
CursorVals == {0, 1, 3, 4, 19, 20, 255}

\* what i2c_master_init meets when the driver is not installed yet
I2cOutcomes == {"ok", "param_config_failed", "driver_install_failed"}

\* the byte found behind the end of row_offsets
OutOfBoundsReads == {0, Garbage, 255}

\* the error codes the two driver calls of i2c_master_init can return
I2cErrors == {"ESP_ERR_INVALID_ARG", ESP_FAIL}

\* as I2cFlagSet, with the flag set before the driver calls
I2cFlagSet_BeforeCalls(o) == TRUE

\* i2c_initialized = true is reached only behind both driver calls
I2cFlagSet(o) == o = "ok"

\* liquid_crystal_i2c_init(addr, cols, rows), with i2c_master_init
liquid_crystal_i2c_init ==
    /\ \E cols \in SizeVals, rows \in SizeVals, o \in I2cOutcomes, err \in I2cErrors :
          /\ lcd_cols' = cols
          /\ lcd_rows' = rows
          /\ i2c_initialized => o = "ok"
          /\ i2c_initialized' = (i2c_initialized \/ I2cFlagSet(o))
          /\ IF o = "ok"
             THEN /\ err = ESP_FAIL
                  /\ i2c_installs' = IF i2c_initialized THEN i2c_installs ELSE i2c_installs + 1
                  /\ lcd_ret' = ESP_OK
                  /\ i2c_bus' = LcdInitWrites[lcd_backlight]
                  /\ lcd_backlight' = LCD_BACKLIGHT_ON
             ELSE /\ lcd_ret' = err
                  /\ i2c_bus' = <<>>
                  /\ UNCHANGED <<i2c_installs, lcd_backlight>>
    /\ lcd_fn' = "liquid_crystal_i2c_init"
    /\ lcd_op' = NoLcdOp
    /\ UNCHANGED <<appFrame, cursor_at>>

\* begin(cols, rows, charsize)
begin ==
    /\ \E cols \in SizeVals, rows \in SizeVals :
          /\ lcd_cols' = cols
          /\ lcd_rows' = rows
    /\ lcd_fn' = "begin"
    /\ i2c_bus' = <<>>
    /\ lcd_op' = NoLcdOp
    /\ UNCHANGED <<appFrame, lcd_backlight, i2c_initialized, lcd_ret, cursor_at,
                   i2c_installs>>

\* uint8_t x = limit - 1 when x >= limit
Clamp8(x, limit) == IF x >= limit THEN (limit - 1) % 256 ELSE x

\* lcd_set_cursor(col, row); an index of 4 or more reads behind row_offsets
lcd_set_cursor ==
    /\ \E col \in CursorVals, row \in CursorVals, junk \in OutOfBoundsReads :
          LET r == Clamp8(row, lcd_rows)
              c == Clamp8(col, lcd_cols)
              offset == IF r < Len(row_offsets) THEN row_offsets[r + 1] ELSE junk
              address == (c + offset) % 256
          IN  /\ r < Len(row_offsets) => junk = 0
              /\ cursor_at' = [col |-> c, row |-> r]
              /\ lcd_op' = [rs |-> 0, v |-> BitOr(LCD_SET_DDRAM_ADDRESS, address)]
              /\ i2c_bus' = lcd_send(BitOr(LCD_SET_DDRAM_ADDRESS, address), 0, lcd_backlight)
    /\ lcd_fn' = "lcd_set_cursor"
    /\ UNCHANGED <<appFrame, lcd_backlight, lcd_cols, lcd_rows, i2c_initialized, lcd_ret,
                   i2c_installs>>

NextCursor ==
    \/ liquid_crystal_i2c_init
    \/ begin
    \/ lcd_set_cursor

SpecCursor == InitLcd /\ [][NextCursor]_vars

\* C31: for every display size set by liquid_crystal_i2c_init or begin and every
\* col and row, lcd_set_cursor reads row_offsets at an index of 0..3: the row
\* used is at most rows-1, the column at most cols-1, and the command sent is
\* 0x80 | (column + row_offsets[row]).
C31_CursorIndexInBounds ==
    lcd_fn = "lcd_set_cursor"
       => /\ cursor_at.row \in 0..(Len(row_offsets) - 1)
          /\ cursor_at.row <= lcd_rows - 1
          /\ cursor_at.col <= lcd_cols - 1
          /\ lcd_op = [rs |-> 0,
                       v |-> BitOr(LCD_SET_DDRAM_ADDRESS,
                                   (cursor_at.col + row_offsets[cursor_at.row + 1]) % 256)]

\* C32: every byte of a command or data transfer has the backlight bit (0x08)
\* equal to the backlight state, and that state changes only in no_backlight()
\* and backlight(), which write it alone: 0 after no_backlight() until the next
\* backlight(), 1 after backlight() until the next no_backlight().
C32_BacklightBitFollowsState ==
    /\ [](lcd_backlight \in {LCD_BACKLIGHT_OFF, LCD_BACKLIGHT_ON})
    /\ [](lcd_op # NoLcdOp
            => \A k \in 1..Len(i2c_bus) :
                  BitOf(i2c_bus[k], 3) = IF lcd_backlight = LCD_BACKLIGHT_ON THEN 1 ELSE 0)
    /\ [][lcd_op' # NoLcdOp => lcd_backlight' = lcd_backlight]_vars
    /\ [][lcd_backlight' # lcd_backlight
            => (lcd_op' = NoLcdOp /\ i2c_bus' \in {<<0>>, <<LCD_BACKLIGHT_ON>>})]_vars

\* the character 'A' sent as data after no_backlight(): no byte has bit 3 set
C32_Witness ==
    /\ lcd_backlight = LCD_BACKLIGHT_OFF
    /\ lcd_op = [rs |-> 1, v |-> 65]
    /\ i2c_bus = <<65, 69, 65, 17, 21, 17>>

(***************************************************************************)
(* LiquidCrystal_I2C.c: the display-control functions                      *)
(***************************************************************************)
\* a function whose body is one lcd_send_command(cmd)
LcdCommandCall(fn, cmd) ==
    /\ lcd_fn' = fn
    /\ lcd_op' = [rs |-> 0, v |-> cmd]
    /\ i2c_bus' = lcd_send(cmd, 0, lcd_backlight)
    /\ UNCHANGED <<appFrame, lcd_backlight, lcd_cols, lcd_rows, i2c_initialized, lcd_ret,
                   cursor_at, i2c_installs>>

no_display ==
    LcdCommandCall("no_display",
                   BitOr4(LCD_DISPLAY_ON_OFF, LCD_DISPLAY_OFF, LCD_CURSOR_OFF, LCD_BLINK_OFF))

display ==
    LcdCommandCall("display",
                   BitOr4(LCD_DISPLAY_ON_OFF, LCD_DISPLAY_ON, LCD_CURSOR_OFF, LCD_BLINK_OFF))

no_blink ==
    LcdCommandCall("no_blink",
                   BitOr4(LCD_DISPLAY_ON_OFF, LCD_DISPLAY_ON, LCD_CURSOR_OFF, LCD_BLINK_OFF))

blink ==
    LcdCommandCall("blink",
                   BitOr4(LCD_DISPLAY_ON_OFF, LCD_DISPLAY_ON, LCD_CURSOR_ON, LCD_BLINK_ON))

no_cursor ==
    LcdCommandCall("no_cursor",
                   BitOr4(LCD_DISPLAY_ON_OFF, LCD_DISPLAY_ON, LCD_CURSOR_OFF, LCD_BLINK_OFF))

cursor ==
    LcdCommandCall("cursor",
                   BitOr4(LCD_DISPLAY_ON_OFF, LCD_DISPLAY_ON, LCD_CURSOR_ON, LCD_BLINK_OFF))

\* the display-control functions on the 16 x 2 display of app_main, with the
\* cursor moved and the backlight switched between them
NextDisplay ==
    \/ no_display
    \/ display
    \/ no_blink
    \/ blink
    \/ no_cursor
    \/ cursor
    \/ lcd_set_cursor
    \/ no_backlight
    \/ backlight

SpecDisplay == InitLcd /\ [][NextDisplay]_vars

\* C33: no_blink() called when the cursor is on (the display-control function
\* before it was cursor() or blink()) sends a display-control command that
\* clears the blink bit and leaves the display and cursor bits set.
C33_NoBlinkKeepsCursor ==
    [][(lcd_fn \in {"cursor", "blink"} /\ lcd_fn' = "no_blink")
         => /\ BitOf(lcd_op'.v, 0) = 0
            /\ BitOf(lcd_op'.v, 1) = 1
            /\ BitOf(lcd_op'.v, 2) = 1
            /\ BitOf(lcd_op'.v, 3) = 1]_vars

\* the LCD driver at program start
InitI2c ==
    /\ pc = "app_init"
    /\ lcd_text = LcdText("", 0, 0)
    /\ InitApp
    /\ sensor = [gpio_num |-> 0, temperature |-> 0, humidity |-> 0]
    /\ LcdAtReset

NextI2c == liquid_crystal_i2c_init

SpecI2c == InitI2c /\ [][NextI2c]_vars

\* C34: over any sequence of liquid_crystal_i2c_init calls the I2C driver is
\* installed at most once, and exactly when the flag is set; once the flag is
\* set every later call skips the driver calls and returns ESP_OK; a call in
\* which a driver call fails leaves the flag false, returns the error code and
\* writes nothing to the LCD; a call that returns ESP_OK writes the whole
\* initialisation sequence.
C34_DriverInstalledOnce ==
    /\ [](i2c_installs <= 1)
    /\ [](i2c_initialized <=> i2c_installs = 1)
    /\ [][i2c_initialized
            => (i2c_initialized' /\ i2c_installs' = i2c_installs /\ lcd_ret' = ESP_OK)]_vars
    /\ [](lcd_ret \notin {"none", ESP_OK}
            => (/\ lcd_ret \in I2cErrors
                /\ ~i2c_initialized
                /\ i2c_installs = 0
                /\ i2c_bus = <<>>
                /\ lcd_op = NoLcdOp))
    /\ [](lcd_ret = ESP_OK => (i2c_initialized /\ i2c_bus = LcdInitWrites[LCD_BACKLIGHT_ON]))

\* a call has installed the driver, configured 20 x 4 and written the sequence
C34_Witness ==
    /\ lcd_ret = ESP_OK
    /\ i2c_initialized
    /\ i2c_installs = 1
    /\ lcd_cols = 20
    /\ lcd_rows = 4
    /\ Len(i2c_bus) = 43

(***************************************************************************)
(* app_main from the LCD initialisation on                                 *)
(***************************************************************************)
\* app_main before liquid_crystal_i2c_init(0x27, 16, 2)
InitBoot ==
    /\ pc = "app_boot"
    /\ lcd_text = LcdText("", 0, 0)
    /\ InitApp
    /\ LcdAtReset

\* app_main: if (liquid_crystal_i2c_init(0x27, 16, 2) == ESP_OK) { ... } else { ... }
AppLcdInit ==
    /\ pc = "app_boot"
    /\ \E o \in I2cOutcomes, err \in I2cErrors :
          /\ i2c_initialized' = (i2c_initialized \/ I2cFlagSet(o))
          /\ IF o = "ok"
             THEN /\ err = ESP_FAIL
                  /\ i2c_installs' = i2c_installs + 1
                  /\ lcd_ret' = ESP_OK
                  /\ lcd_text' = LcdText("Initializing...", 0, 0)
                  /\ log' = "LCD initialized successfully"
             ELSE /\ lcd_ret' = err
                  /\ log' = "Failed to initialize LCD"
                  /\ UNCHANGED <<i2c_installs, lcd_text>>
    /\ lcd_cols' = 16
    /\ lcd_rows' = 2
    /\ lcd_fn' = "liquid_crystal_i2c_init"
    /\ pc' = "app_init"
    /\ UNCHANGED <<sensor, gpio_dir, gpio_out, retry_i, result, onceVars, ledVars, starts,
                   fails, last_good, red_off, delay_ms, idle_ms, start_seq, seen_at,
                   signals, led_call, pmw_inits, i2c_bus, lcd_backlight, lcd_op, cursor_at>>

NextBoot ==
    \/ AppLcdInit
    \/ Next

SpecBoot == InitBoot /\ [][NextBoot]_vars

\* C35: once liquid_crystal_i2c_init has returned an error in app_main, app_main
\* makes no further LCD call: the text it hands to lcd_print never changes.
C35_NoLcdCallAfterFailedInit ==
    [][(lcd_ret \in I2cErrors) => (lcd_text' = lcd_text)]_vars

====
